---- MODULE Spec2Model ----
(***************************************************************************)
(* Model of the weather dashboard script src/main.py: the fetch of one     *)
(* forecast per city (get_weather), the normalisation of the provider's    *)
(* response, the accumulation into comparison_df and download_df, the      *)
(* alert banners of the selected forecast day, and the chart / CSV         *)
(* sections that follow the city loop.                                     *)
(*                                                                         *)
(* Conventions                                                             *)
(*   - temperatures and the UV index are fixed-point numbers in hundredths *)
(*     (35.01 is 3501), so that the comparisons of lines 197-203 are       *)
(*     integer comparisons;                                                *)
(*   - a provider date string "YYYY-MM-DD" is the triple <<y, m, d>>; a    *)
(*     parsed datetime/date is its proleptic Gregorian ordinal;            *)
(*   - Python's None is the value None below; a pandas NaN cell is NaN;    *)
(*   - the index of a DataFrame is kept as a set of dates (row order of    *)
(*     pd.concat(axis=1) is not modelled), its columns as a sequence       *)
(*     (duplicate column names are possible).                              *)
(*   - streamlit / lottie / plotly rendering calls have no effect on the   *)
(*     program state and are abstracted to the output variables messages,  *)
(*     alerts, chart_drawn and csv_offered.                                *)
(***************************************************************************)
EXTENDS Integers, Sequences, FiniteSets, TLC

VARIABLES
    cities_input,      \* text of st.text_input (line 128), a sequence of characters
    cities,            \* line 129
    i,                 \* loop position of line 148 (1-based)
    pc,                \* "loop", "body", "done", "aborted"
    raw,               \* body of the last provider response (line 84)
    weather,           \* result of the last get_weather call (line 149)
    requests,          \* forecast requests issued so far, in order
    fetched,           \* results of get_weather of the fully handled entries
    comparison_df,     \* line 136
    download_df,       \* line 137, the sequence of its rows
    messages,          \* st.error messages of line 219
    forecast_for_date, \* line 178
    alerts,            \* alert banners shown for the current city (197-204)
    chart_drawn,       \* lines 224-238 ran their body
    csv_offered,       \* lines 243-245 ran their body
    exception          \* the uncaught exception that ended the script, or None

vars == <<cities_input, cities, i, pc, raw, weather, requests, fetched,
          comparison_df, download_df, messages, forecast_for_date, alerts,
          chart_drawn, csv_offered, exception>>

-----------------------------------------------------------------------------
(* Bounds of the model *)

MaxInputLen == 5

-----------------------------------------------------------------------------
(* Python values *)

None == [none |-> TRUE]

NaN == <<>>

Cell(v) == <<v>>

Range(s) == {s[k] : k \in DOMAIN s}

RECURSIVE SumSeq(_)
SumSeq(s) == IF s = <<>> THEN 0 ELSE Head(s) + SumSeq(Tail(s))

(* str.split(",") of line 129: one piece more than there are commas *)
RECURSIVE split(_)
split(s) ==
    IF \A k \in DOMAIN s : s[k] # ","
    THEN <<s>>
    ELSE LET p == CHOOSE k \in DOMAIN s :
                      s[k] = "," /\ \A j \in 1..(k - 1) : s[j] # ","
         IN  <<SubSeq(s, 1, p - 1)>> \o split(SubSeq(s, p + 1, Len(s)))

(* str.strip() of line 129: leading and trailing whitespace removed *)
RECURSIVE strip(_)
strip(s) ==
    IF s = <<>> THEN s
    ELSE IF Head(s) = " " THEN strip(Tail(s))
    ELSE IF s[Len(s)] = " " THEN strip(SubSeq(s, 1, Len(s) - 1))
    ELSE s

(* line 129 *)
ParseCities(text) == [k \in DOMAIN split(text) |-> strip(split(text)[k])]

-----------------------------------------------------------------------------
(* Dates: datetime.strptime(s, "%Y-%m-%d") of line 93 and date arithmetic *)

IsLeap(y) == (y % 4 = 0) /\ ((y % 100 # 0) \/ (y % 400 = 0))

DaysInMonth(y, m) ==
    IF m = 2 THEN (IF IsLeap(y) THEN 29 ELSE 28)
    ELSE IF m \in {4, 6, 9, 11} THEN 30 ELSE 31

RECURSIVE DaysBeforeMonth(_, _)
DaysBeforeMonth(y, m) ==
    IF m = 1 THEN 0 ELSE DaysBeforeMonth(y, m - 1) + DaysInMonth(y, m - 1)

DaysBeforeYear(y) ==
    (y - 1) * 365 + ((y - 1) \div 4) - ((y - 1) \div 100) + ((y - 1) \div 400)

ValidDateStr(s) ==
    /\ s[1] >= 1
    /\ s[2] \in 1..12
    /\ s[3] \in 1..DaysInMonth(s[1], s[2])

strptime(s) == DaysBeforeYear(s[1]) + DaysBeforeMonth(s[1], s[2]) + s[3]

(* the provider's formatting of the day after a date *)
NextDay(s) ==
    IF s[3] < DaysInMonth(s[1], s[2]) THEN <<s[1], s[2], s[3] + 1>>
    ELSE IF s[2] < 12 THEN <<s[1], s[2] + 1, 1>>
    ELSE <<s[1] + 1, 1, 1>>

RECURSIVE AddDays(_, _)
AddDays(s, n) == IF n = 0 THEN s ELSE AddDays(NextDay(s), n - 1)

-----------------------------------------------------------------------------
(* The weather provider (the environment of line 84) *)

Centi(x) == x * 100

Today == <<2026, 12, 28>>

LocationNames == {"Kathmandu", "Lalitpur"}

RelativeIcon == "//cdn.weatherapi.com/weather/64x64/day/113.png"

TempTable == <<3501, 3500, 2000, 1000, 999, 3600, 2500>>

UVTable == <<700, 699, 300, 800, 699, 700, 100>>

RainTable == <<50, 49, 0, 100, 50, 49, 10>>

SunriseTable == <<"06:51 AM", "06:52 AM", "06:53 AM", "06:54 AM",
                  "06:55 AM", "06:56 AM", "06:57 AM">>

SunsetTable == <<"05:11 PM", "05:12 PM", "05:13 PM", "05:14 PM",
                 "05:15 PM", "05:16 PM", "05:17 PM">>

Shift(name) == IF name = "Kathmandu" THEN 0 ELSE 4

At(table, name, k) == table[((k + Shift(name)) % Len(table)) + 1]

(* one element of forecast.forecastday: the day k days after Today *)
ProviderDay(name, k, icon) ==
    [date  |-> AddDays(Today, k),
     day   |-> [maxtemp_c            |-> At(TempTable, name, k),
                mintemp_c            |-> At(TempTable, name, k) - Centi(8),
                condition            |-> [text |-> "Sunny", icon |-> icon],
                maxwind_kph          |-> 12,
                avghumidity          |-> 40,
                daily_chance_of_rain |-> At(RainTable, name, k),
                uv                   |-> At(UVTable, name, k)],
     astro |-> [sunrise |-> At(SunriseTable, name, k),
                sunset  |-> At(SunsetTable, name, k)]]

(* forecastday list of len days starting start days after Today *)
ForecastDays(name, start, len, icon) ==
    [j \in 1..len |-> ProviderDay(name, start + j - 1, icon)]

Reverse(s) == [j \in DOMAIN s |-> s[Len(s) + 1 - j]]

Response(name, days, icon) ==
    [location |-> [name |-> name, region |-> "Bagmati", country |-> "Nepal"],
     current  |-> [temp_c    |-> Centi(21),
                   humidity  |-> 40,
                   condition |-> [text |-> "Sunny", icon |-> icon],
                   wind_kph  |-> 12,
                   wind_dir  |-> "NW"],
     forecast |-> [forecastday |-> days]]

(* the provider's "no matching location" body *)
ErrorBody == [error |-> [code |-> 1006, message |-> "No matching location found."]]

(* the provider's answer to a request without a city *)
MissingQueryBody == [error |-> [code |-> 1003, message |-> "Parameter q is missing."]]

(* a body without an error field and without the expected keys *)
MalformedBody == [message |-> "Internal application error."]

EmptyForecastBody == Response("Kathmandu", <<>>, RelativeIcon)

(* days=7 of the request, line 83 *)
ForecastHorizon == 7

(* the spans (start, length) of the forecasts the provider answers with: the
   requested week, a week of other dates, and a shorter forecast *)
ForecastSpans == {<<0, ForecastHorizon>>, <<ForecastHorizon, ForecastHorizon>>, <<0, 3>>}

GoodResponses ==
    {Response(n, ForecastDays(n, sp[1], sp[2], RelativeIcon), RelativeIcon) :
        n \in LocationNames, sp \in ForecastSpans}

ProviderResponses ==
    {ErrorBody, MalformedBody, EmptyForecastBody} \cup GoodResponses

(* the bodies the provider may answer a request for city with *)
ProviderAnswers(city) ==
    IF city = <<>> THEN {MissingQueryBody} ELSE ProviderResponses

-----------------------------------------------------------------------------
(* get_weather, lines 82-119, applied to the body of the response *)

Raise(e) == [raise |-> e]

IsRaise(r) == "raise" \in DOMAIN r

PrefixIcon(icon) == "http:" \o icon

(* lines 92-104 *)
ForecastEntry(day) ==
    [date           |-> strptime(day.date),
     temp_day       |-> day.day.maxtemp_c,
     temp_night     |-> day.day.mintemp_c,
     weather        |-> day.day.condition.text,
     wind_kph       |-> day.day.maxwind_kph,
     humidity       |-> day.day.avghumidity,
     chance_of_rain |-> day.day.daily_chance_of_rain,
     uv             |-> day.day.uv,
     sunrise        |-> day.astro.sunrise,
     sunset         |-> day.astro.sunset,
     icon           |-> PrefixIcon(day.day.condition.icon)]

(* lines 90-104 *)
NormalizeForecast(forecast_days) ==
    [k \in DOMAIN forecast_days |-> ForecastEntry(forecast_days[k])]

(* CityRecord with the sunrise and sunset of the last forecast entry *)
CityRecordLastDay(response, forecast) ==
    [city     |-> response.location.name,
     region   |-> response.location.region,
     country  |-> response.location.country,
     temp     |-> response.current.temp_c,
     humidity |-> response.current.humidity,
     weather  |-> response.current.condition.text,
     wind_kph |-> response.current.wind_kph,
     wind_dir |-> response.current.wind_dir,
     sunrise  |-> forecast[Len(forecast)].sunrise,
     sunset   |-> forecast[Len(forecast)].sunset,
     icon     |-> PrefixIcon(response.current.condition.icon),
     forecast |-> forecast]

(* lines 105-118 *)
CityRecord(response, forecast) ==
    [city     |-> response.location.name,
     region   |-> response.location.region,
     country  |-> response.location.country,
     temp     |-> response.current.temp_c,
     humidity |-> response.current.humidity,
     weather  |-> response.current.condition.text,
     wind_kph |-> response.current.wind_kph,
     wind_dir |-> response.current.wind_dir,
     sunrise  |-> forecast[1].sunrise,
     sunset   |-> forecast[1].sunset,
     icon     |-> PrefixIcon(response.current.condition.icon),
     forecast |-> forecast]

(* get_weather that answers None for every body it cannot read *)
get_weather_lenient(response) ==
    IF "error" \in DOMAIN response THEN None
    ELSE IF ~({"current", "location", "forecast"} \subseteq DOMAIN response)
         THEN None
    ELSE LET forecast_days == response.forecast.forecastday IN
         IF \E k \in DOMAIN forecast_days : ~ValidDateStr(forecast_days[k].date)
         THEN None
         ELSE IF forecast_days = <<>> THEN None
         ELSE CityRecord(response, NormalizeForecast(forecast_days))

get_weather(response) ==
    IF "error" \in DOMAIN response THEN None
    ELSE IF ~({"current", "location", "forecast"} \subseteq DOMAIN response)
         THEN Raise("KeyError")
    ELSE LET forecast_days == response.forecast.forecastday IN
         IF \E k \in DOMAIN forecast_days : ~ValidDateStr(forecast_days[k].date)
         THEN Raise("ValueError")
         ELSE IF forecast_days = <<>> THEN Raise("IndexError")
         ELSE CityRecord(response, NormalizeForecast(forecast_days))

-----------------------------------------------------------------------------
(* The loop body, lines 150-219 *)

(* date.today() of lines 174-176 *)
today == strptime(Today)

(* the dates st.date_input lets the user choose, lines 172-177 *)
SelectableDates == {today + k : k \in {0, 3, 6}}

(* line 178: the first forecast entry of the selected date, or None *)
ForecastForDate(forecast, selected_date) ==
    IF \E k \in DOMAIN forecast : forecast[k].date = selected_date
    THEN forecast[CHOOSE k \in DOMAIN forecast :
                      /\ forecast[k].date = selected_date
                      /\ \A j \in 1..(k - 1) : forecast[j].date # selected_date]
    ELSE None

(* Alerts with the hot-day threshold inclusive *)
AlertsHotInclusive(d) ==
    (IF d.temp_day >= Centi(35) THEN <<"Hot day alert!">>
     ELSE IF d.temp_day < Centi(10) THEN <<"Cold day alert!">>
     ELSE <<>>)
    \o (IF d.uv >= Centi(7) THEN <<"High UV Index!">> ELSE <<>>)
    \o (IF d.chance_of_rain >= 50 THEN <<"High chance of rain!">> ELSE <<>>)

(* lines 196-204, the banners in the order they are shown *)
Alerts(d) ==
    (IF d.temp_day > Centi(35) THEN <<"Hot day alert!">>
     ELSE IF d.temp_day < Centi(10) THEN <<"Cold day alert!">>
     ELSE <<>>)
    \o (IF d.uv >= Centi(7) THEN <<"High UV Index!">> ELSE <<>>)
    \o (IF d.chance_of_rain >= 50 THEN <<"High chance of rain!">> ELSE <<>>)

(* lines 179-204 *)
AlertsShown(ffd) == IF ffd = None THEN <<>> ELSE Alerts(ffd)

(* pd.DataFrame() of lines 136-137 *)
EmptyFrame == [index |-> {}, columns |-> <<>>]

(* DataFrame.empty of line 224 *)
IsEmptyFrame(df) == df.index = {} \/ df.columns = <<>>

(* one column of temp_df, lines 207-209 *)
TempColumn(forecast, name, field) ==
    [name |-> name,
     data |-> [d \in {forecast[k].date : k \in DOMAIN forecast} |->
                  Cell((CHOOSE e \in Range(forecast) : e.date = d)[field])]]

(* lines 207-209 *)
temp_df(w) ==
    [index   |-> {w.forecast[k].date : k \in DOMAIN w.forecast},
     columns |-> <<TempColumn(w.forecast, w.city \o "_day", "temp_day"),
                   TempColumn(w.forecast, w.city \o "_night", "temp_night")>>]

(* a column reindexed on a larger index: absent dates become NaN *)
Reindex(col, index) ==
    [name |-> col.name,
     data |-> [d \in index |-> IF d \in DOMAIN col.data THEN col.data[d] ELSE NaN]]

(* pd.concat([a, b], axis=1, join="inner"): only the dates both frames have *)
ConcatColumnsInner(a, b) ==
    LET index == IF a.columns = <<>> THEN b.index ELSE a.index \cap b.index
        cols  == a.columns \o b.columns
    IN  [index   |-> index,
         columns |-> [k \in DOMAIN cols |-> Reindex(cols[k], index)]]

(* pd.concat([a, b], axis=1) of line 210: outer join on the index *)
ConcatColumns(a, b) ==
    LET index == a.index \cup b.index
        cols  == a.columns \o b.columns
    IN  [index   |-> index,
         columns |-> [k \in DOMAIN cols |-> Reindex(cols[k], index)]]

(* lines 213-214: the forecast rows with the city column *)
city_csv_df(w) ==
    [k \in DOMAIN w.forecast |->
        [date           |-> w.forecast[k].date,
         temp_day       |-> w.forecast[k].temp_day,
         temp_night     |-> w.forecast[k].temp_night,
         weather        |-> w.forecast[k].weather,
         wind_kph       |-> w.forecast[k].wind_kph,
         humidity       |-> w.forecast[k].humidity,
         chance_of_rain |-> w.forecast[k].chance_of_rain,
         uv             |-> w.forecast[k].uv,
         sunrise        |-> w.forecast[k].sunrise,
         sunset         |-> w.forecast[k].sunset,
         icon           |-> w.forecast[k].icon,
         city           |-> w.city]]

(* the running table replaced by the new rows instead of extended *)
ConcatRowsReplace(a, b) == b

(* the new rows put in front of the running table *)
ConcatRowsPrepend(a, b) == b \o a

(* pd.concat([a, b], ignore_index=True) of line 215 *)
ConcatRows(a, b) == a \o b

(* the message of line 219 *)
NotFoundMessage(city) == [text |-> "not found!", city |-> city]

-----------------------------------------------------------------------------
(* The pass over the city list *)

Alphabet == {"K", ",", " "}

RECURSIVE Texts(_)
Texts(n) ==
    IF n = 0 THEN {<<>>}
    ELSE Texts(n - 1) \cup
         {Append(t, c) : t \in {u \in Texts(n - 1) : Len(u) = n - 1}, c \in Alphabet}

InputTexts == Texts(MaxInputLen)

Init ==
    /\ cities_input \in InputTexts
    /\ cities = ParseCities(cities_input)
    /\ i = 1
    /\ pc = "loop"
    /\ raw = None
    /\ weather = None
    /\ requests = <<>>
    /\ fetched = <<>>
    /\ comparison_df = EmptyFrame
    /\ download_df = <<>>
    /\ messages = <<>>
    /\ forecast_for_date = None
    /\ alerts = <<>>
    /\ chart_drawn = FALSE
    /\ csv_offered = FALSE
    /\ exception = None

(* line 84: requests.get raises (DNS, connection, timeout) *)
GetWeatherTransportError ==
    /\ pc = "loop"
    /\ i <= Len(cities)
    /\ requests' = Append(requests, cities[i])
    /\ exception' = Raise("ConnectionError")
    /\ pc' = "aborted"
    /\ UNCHANGED <<cities_input, cities, i, raw, weather, fetched, comparison_df,
                   download_df, messages, forecast_for_date, alerts,
                   chart_drawn, csv_offered>>

(* line 149, get_weather raises on the shape of the response *)
GetWeatherRaises ==
    /\ pc = "loop"
    /\ i <= Len(cities)
    /\ \E response \in ProviderAnswers(cities[i]) :
          /\ IsRaise(get_weather(response))
          /\ raw' = response
          /\ exception' = get_weather(response)
    /\ requests' = Append(requests, cities[i])
    /\ pc' = "aborted"
    /\ UNCHANGED <<cities_input, cities, i, weather, fetched, comparison_df,
                   download_df, messages, forecast_for_date, alerts,
                   chart_drawn, csv_offered>>

(* line 149, get_weather returns None or the city's record *)
GetWeatherReturns ==
    /\ pc = "loop"
    /\ i <= Len(cities)
    /\ \E response \in ProviderAnswers(cities[i]) :
          /\ ~IsRaise(get_weather(response))
          /\ raw' = response
          /\ weather' = get_weather(response)
    /\ requests' = Append(requests, cities[i])
    /\ pc' = "body"
    /\ UNCHANGED <<cities_input, cities, i, fetched, comparison_df, download_df,
                   messages, forecast_for_date, alerts, chart_drawn,
                   csv_offered, exception>>

(* lines 151-217 *)
CityFound ==
    /\ pc = "body"
    /\ weather # None
    /\ \E selected_date \in SelectableDates :
          /\ forecast_for_date' = ForecastForDate(weather.forecast, selected_date)
          /\ alerts' = AlertsShown(forecast_for_date')
    /\ comparison_df' = ConcatColumns(comparison_df, temp_df(weather))
    /\ download_df' = ConcatRows(download_df, city_csv_df(weather))
    /\ fetched' = Append(fetched, weather)
    /\ i' = i + 1
    /\ pc' = "loop"
    /\ UNCHANGED <<cities_input, cities, raw, weather, requests, messages,
                   chart_drawn, csv_offered, exception>>

(* the not-found branch leaving a row for the city in the export table *)
CityNotFoundAddsRow ==
    /\ pc = "body"
    /\ weather = None
    /\ messages' = Append(messages, NotFoundMessage(cities[i]))
    /\ download_df' = Append(download_df, [city |-> cities[i]])
    /\ alerts' = <<>>
    /\ fetched' = Append(fetched, None)
    /\ i' = i + 1
    /\ pc' = "loop"
    /\ UNCHANGED <<cities_input, cities, raw, weather, requests, comparison_df,
                   forecast_for_date, chart_drawn, csv_offered, exception>>

(* the not-found branch asking for the same city again *)
CityNotFoundRetries ==
    /\ pc = "body"
    /\ weather = None
    /\ messages' = Append(messages, NotFoundMessage(cities[i]))
    /\ alerts' = <<>>
    /\ pc' = "loop"
    /\ UNCHANGED <<cities_input, cities, i, raw, weather, requests, fetched,
                   comparison_df, download_df, forecast_for_date, chart_drawn,
                   csv_offered, exception>>

(* lines 218-219 *)
CityNotFound ==
    /\ pc = "body"
    /\ weather = None
    /\ messages' = Append(messages, NotFoundMessage(cities[i]))
    /\ alerts' = <<>>
    /\ fetched' = Append(fetched, None)
    /\ i' = i + 1
    /\ pc' = "loop"
    /\ UNCHANGED <<cities_input, cities, raw, weather, requests, comparison_df,
                   download_df, forecast_for_date, chart_drawn, csv_offered,
                   exception>>

(* the CSV section without its emptiness test *)
ChartAndCSVAlways ==
    /\ pc = "loop"
    /\ i > Len(cities)
    /\ chart_drawn' = ~IsEmptyFrame(comparison_df)
    /\ csv_offered' = TRUE
    /\ pc' = "done"
    /\ UNCHANGED <<cities_input, cities, i, raw, weather, requests, fetched,
                   comparison_df, download_df, messages, forecast_for_date,
                   alerts, exception>>

(* lines 224-245, after the loop *)
ChartAndCSV ==
    /\ pc = "loop"
    /\ i > Len(cities)
    /\ chart_drawn' = ~IsEmptyFrame(comparison_df)
    /\ csv_offered' = (download_df # <<>>)
    /\ pc' = "done"
    /\ UNCHANGED <<cities_input, cities, i, raw, weather, requests, fetched,
                   comparison_df, download_df, messages, forecast_for_date,
                   alerts, exception>>

Next ==
    \/ GetWeatherTransportError
    \/ GetWeatherRaises
    \/ GetWeatherReturns
    \/ CityFound
    \/ CityNotFound
    \/ ChartAndCSV

Spec == Init /\ [][Next]_vars

-----------------------------------------------------------------------------
(* get_weather on its own: the normalisation of one response body *)

AbsoluteIcon == "http://cdn.weatherapi.com/weather/64x64/day/113.png"

Icons == {RelativeIcon, AbsoluteIcon}

(* a body whose forecast carries a date that is no calendar date *)
BadDateBody ==
    Response("Kathmandu",
             <<[ProviderDay("Kathmandu", 0, RelativeIcon) EXCEPT !.date = <<2026, 2, 30>>]>>,
             RelativeIcon)

NormSpans == ForecastSpans \cup {<<1, ForecastHorizon>>, <<0, 1>>, <<0, 0>>}

NormForecasts(n) ==
    LET asc == {ForecastDays(n, sp[1], sp[2], ic) : sp \in NormSpans, ic \in Icons}
    IN  asc \cup {Reverse(f) : f \in asc}

NormResponses ==
    {ErrorBody, MissingQueryBody, MalformedBody, BadDateBody}
    \cup UNION {{Response(n, f, ic) : f \in NormForecasts(n), ic \in Icons} :
                   n \in LocationNames}

InitNorm ==
    /\ raw \in NormResponses
    /\ pc = "normalize"
    /\ cities_input = <<>>
    /\ cities = <<>>
    /\ i = 1
    /\ weather = None
    /\ requests = <<>>
    /\ fetched = <<>>
    /\ comparison_df = EmptyFrame
    /\ download_df = <<>>
    /\ messages = <<>>
    /\ forecast_for_date = None
    /\ alerts = <<>>
    /\ chart_drawn = FALSE
    /\ csv_offered = FALSE
    /\ exception = None

(* lines 85-119 return *)
NormalizeReturns ==
    /\ pc = "normalize"
    /\ ~IsRaise(get_weather(raw))
    /\ weather' = get_weather(raw)
    /\ pc' = "normalized"
    /\ UNCHANGED <<cities_input, cities, i, raw, requests, fetched, comparison_df,
                   download_df, messages, forecast_for_date, alerts,
                   chart_drawn, csv_offered, exception>>

(* lines 85-119 raise *)
NormalizeRaises ==
    /\ pc = "normalize"
    /\ IsRaise(get_weather(raw))
    /\ exception' = get_weather(raw)
    /\ pc' = "aborted"
    /\ UNCHANGED <<cities_input, cities, i, raw, weather, requests, fetched,
                   comparison_df, download_df, messages, forecast_for_date,
                   alerts, chart_drawn, csv_offered>>

NextNorm == NormalizeReturns \/ NormalizeRaises

SpecNorm == InitNorm /\ [][NextNorm]_vars

-----------------------------------------------------------------------------
(* The alert banners on their own: lines 196-204 on one forecast entry *)

AlertTemps == {0 - Centi(5), 999, Centi(10), 1001, Centi(20), 3499, Centi(35), 3501, Centi(45)}

AlertUVs == {0, 699, Centi(7), 701, Centi(11)}

AlertRains == {0, 49, 50, 51, 100}

AlertDays ==
    {[ForecastEntry(ProviderDay("Kathmandu", 0, RelativeIcon))
         EXCEPT !.temp_day = t, !.uv = u, !.chance_of_rain = r] :
        t \in AlertTemps, u \in AlertUVs, r \in AlertRains}

InitAlert ==
    /\ forecast_for_date \in AlertDays
    /\ pc = "evaluate"
    /\ raw = None
    /\ cities_input = <<>>
    /\ cities = <<>>
    /\ i = 1
    /\ weather = None
    /\ requests = <<>>
    /\ fetched = <<>>
    /\ comparison_df = EmptyFrame
    /\ download_df = <<>>
    /\ messages = <<>>
    /\ alerts = <<>>
    /\ chart_drawn = FALSE
    /\ csv_offered = FALSE
    /\ exception = None

(* lines 196-204 *)
ShowAlerts ==
    /\ pc = "evaluate"
    /\ alerts' = AlertsShown(forecast_for_date)
    /\ pc' = "evaluated"
    /\ UNCHANGED <<cities_input, cities, i, raw, weather, requests, fetched,
                   comparison_df, download_df, messages, forecast_for_date,
                   chart_drawn, csv_offered, exception>>

NextAlert == ShowAlerts

SpecAlert == InitAlert /\ [][NextAlert]_vars

-----------------------------------------------------------------------------
(* Vocabulary of the properties *)

IsRecord(w) == w # None

(* the records of the entries handled so far that were found, in list order *)
Successes == SelectSeq(fetched, IsRecord)

Dates(w) == {w.forecast[k].date : k \in DOMAIN w.forecast}

EntryFor(w, d) == CHOOSE e \in Range(w.forecast) : e.date = d

ForecastLengths(ws) == [k \in DOMAIN ws |-> Len(ws[k].forecast)]

(* number of export rows that precede those of the k-th found city *)
Offset(ws, k) == SumSeq(SubSeq(ForecastLengths(ws), 1, k - 1))

RECURSIVE FoldFrames(_)
FoldFrames(ws) ==
    IF ws = <<>> THEN EmptyFrame
    ELSE ConcatColumns(FoldFrames(SubSeq(ws, 1, Len(ws) - 1)), temp_df(ws[Len(ws)]))

RECURSIVE FoldRows(_)
FoldRows(ws) ==
    IF ws = <<>> THEN <<>>
    ELSE ConcatRows(FoldRows(SubSeq(ws, 1, Len(ws) - 1)), city_csv_df(ws[Len(ws)]))

RECURSIVE MessagesOf(_, _)
MessagesOf(results, names) ==
    IF results = <<>> THEN <<>>
    ELSE (IF Head(results) = None THEN <<NotFoundMessage(Head(names))>> ELSE <<>>)
         \o MessagesOf(Tail(results), Tail(names))

IsPrefix(a, b) == Len(a) <= Len(b) /\ a = SubSeq(b, 1, Len(a))

NumCommas(text) == Cardinality({k \in DOMAIN text : text[k] = ","})

Trimmed(name) == name = <<>> \/ (Head(name) # " " /\ name[Len(name)] # " ")

DateStrLess(a, b) ==
    \/ a[1] < b[1]
    \/ a[1] = b[1] /\ a[2] < b[2]
    \/ a[1] = b[1] /\ a[2] = b[2] /\ a[3] < b[3]

Ascending(forecast) ==
    \A k \in 1..(Len(forecast) - 1) : forecast[k].date < forecast[k + 1].date

(* a forecastday list of two or more days in ascending date order *)
MultiDay(days) ==
    /\ Len(days) >= 2
    /\ \A k \in 1..(Len(days) - 1) : DateStrLess(days[k].date, days[k + 1].date)

(* a body without error field that lacks an expected key or any forecast day *)
ShapeError(body) ==
    /\ body # None
    /\ "error" \notin DOMAIN body
    /\ \/ ~({"current", "location", "forecast"} \subseteq DOMAIN body)
       \/ body.forecast.forecastday = <<>>

HasPrefix(text, prefix) ==
    Len(text) >= Len(prefix) /\ SubSeq(text, 1, Len(prefix)) = prefix

(* the absolute form of an icon URI: prefixed unless already absolute *)
AbsoluteForm(icon) == IF HasPrefix(icon, "http:") THEN icon ELSE "http:" \o icon

-----------------------------------------------------------------------------
(* C1: a city the provider reports as not found (the body carries an error
   field, get_weather returns None) adds nothing to comparison_df or
   download_df and produces one not-found message; both tables are what the
   found cities alone, in list order, accumulate, and a pass that is not
   ended by an exception handles every entry of the list. *)
C1_NotFoundContributesNothing ==
    /\ (pc = "body" => ((weather = None) <=> ("error" \in DOMAIN raw)))
    /\ comparison_df = FoldFrames(Successes)
    /\ download_df = FoldRows(Successes)
    /\ messages = MessagesOf(fetched, SubSeq(cities, 1, Len(fetched)))
    /\ (pc = "done" => Len(fetched) = Len(cities))

C1_Witness ==
    /\ pc = "done"
    /\ Len(fetched) = 3
    /\ fetched[1] # None
    /\ fetched[2] = None
    /\ fetched[3] # None
    /\ Len(messages) = 1
    /\ Len(comparison_df.columns) = 4

(* C2 as stated: the export table always has 7 rows per found city. *)
C2_SevenRowsPerCity == Len(download_df) = ForecastHorizon * Len(Successes)

(* C2, amended: download_df is append-only and has as many rows as the found
   cities' responses carried forecast days, which is 7 per found city when
   every found city's response carried the 7 days requested. *)
C2_RowCount ==
    /\ [](/\ Len(download_df) = SumSeq(ForecastLengths(Successes))
          /\ ((\A k \in DOMAIN Successes : Len(Successes[k].forecast) = ForecastHorizon)
                 => Len(download_df) = ForecastHorizon * Len(Successes)))
    /\ [][IsPrefix(download_df, download_df')]_vars

C2_Witness ==
    /\ pc = "done"
    /\ Len(fetched) = 3
    /\ Len(Successes) = 2
    /\ Len(Successes[1].forecast) = 3
    /\ Len(Successes[2].forecast) = ForecastHorizon
    /\ Len(download_df) = 10

(* C3: the banners shown for a forecast day are exactly: hot day iff the day
   temperature is above 35, cold day iff it is below 10, high UV iff the UV
   index is at least 7, high chance of rain iff the rain probability is at
   least 50; hot and cold are never shown together and no banner twice. *)
C3_AlertsExact ==
    pc = "evaluated" =>
        LET d     == forecast_for_date
            shown == Range(alerts)
        IN  /\ shown \subseteq {"Hot day alert!", "Cold day alert!",
                               "High UV Index!", "High chance of rain!"}
            /\ Len(alerts) = Cardinality(shown)
            /\ ("Hot day alert!" \in shown) <=> (d.temp_day > Centi(35))
            /\ ("Cold day alert!" \in shown) <=> (d.temp_day < Centi(10))
            /\ ("High UV Index!" \in shown) <=> (d.uv >= Centi(7))
            /\ ("High chance of rain!" \in shown) <=> (d.chance_of_rain >= 50)
            /\ ~("Hot day alert!" \in shown /\ "Cold day alert!" \in shown)

C3_Witness ==
    /\ pc = "evaluated"
    /\ forecast_for_date.temp_day = Centi(35)
    /\ forecast_for_date.uv = Centi(7)
    /\ forecast_for_date.chance_of_rain = 50
    /\ alerts = <<"High UV Index!", "High chance of rain!">>

(* C4: a transport error or a body of unexpected shape ends the script with
   an uncaught exception at that city: no later city is requested or
   accumulated, nothing runs afterwards, and neither the chart nor the CSV
   download is produced, whatever the earlier cities accumulated. *)
C4_ErrorHaltsPass ==
    /\ [](/\ (ShapeError(raw) \/ exception # None) => pc = "aborted"
          /\ pc = "aborted" =>
                /\ exception # None
                /\ Len(requests) = i
                /\ Len(fetched) = i - 1
                /\ ~chart_drawn
                /\ ~csv_offered)
    /\ [][pc # "aborted"]_vars

C4_Witness ==
    /\ pc = "aborted"
    /\ ShapeError(raw)
    /\ i = 2
    /\ Len(cities) = 3
    /\ fetched[1] # None
    /\ download_df # <<>>
    /\ ~csv_offered

(* C5: the icon URIs of the record are the absolute forms of the provider's:
   "//x" becomes "http://x" and an already absolute "http://x" stays as it
   is (it is not prefixed a second time). *)
C5_IconNotDoublePrefixed ==
    (pc = "normalized" /\ weather # None) =>
        /\ weather.icon = AbsoluteForm(raw.current.condition.icon)
        /\ \A k \in DOMAIN weather.forecast :
              weather.forecast[k].icon =
                  AbsoluteForm(raw.forecast.forecastday[k].day.condition.icon)

(* C6: comparison_df is the outer join on date of the found cities: its rows
   are the union of their forecast dates, the k-th found city owns the columns
   "{city}_day" and "{city}_night" at positions 2k-1 and 2k, and a cell is NaN
   exactly when the city has no forecast entry for the date, else the entry's
   temperature. Two cities with the same 7 dates give 7 rows and 4 columns. *)
C6_OuterJoinOnDate ==
    LET ws   == Successes
        cols == comparison_df.columns
    IN  /\ comparison_df.index = UNION {Dates(ws[k]) : k \in DOMAIN ws}
        /\ Len(cols) = 2 * Len(ws)
        /\ \A k \in DOMAIN ws :
              /\ cols[2 * k - 1].name = ws[k].city \o "_day"
              /\ cols[2 * k].name = ws[k].city \o "_night"
              /\ DOMAIN cols[2 * k - 1].data = comparison_df.index
              /\ DOMAIN cols[2 * k].data = comparison_df.index
              /\ \A d \in comparison_df.index :
                    IF d \in Dates(ws[k])
                    THEN /\ cols[2 * k - 1].data[d] = Cell(EntryFor(ws[k], d).temp_day)
                         /\ cols[2 * k].data[d] = Cell(EntryFor(ws[k], d).temp_night)
                    ELSE /\ cols[2 * k - 1].data[d] = NaN
                         /\ cols[2 * k].data[d] = NaN
        /\ (/\ Len(ws) = 2
            /\ Dates(ws[1]) = Dates(ws[2])
            /\ Cardinality(Dates(ws[1])) = ForecastHorizon)
              => (Cardinality(comparison_df.index) = ForecastHorizon /\ Len(cols) = 4)

C6_Witness ==
    /\ pc = "done"
    /\ Len(Successes) = 2
    /\ Dates(Successes[1]) \cap Dates(Successes[2]) = {}
    /\ Cardinality(comparison_df.index) = 2 * ForecastHorizon
    /\ Len(comparison_df.columns) = 4
    /\ \E d \in comparison_df.index :
          /\ comparison_df.columns[1].data[d] = NaN
          /\ comparison_df.columns[3].data[d] # NaN

(* C7 as stated: the record get_weather returns for a multi-day response
   (two or more forecast days, in ascending date order) has exactly 7 forecast
   entries in ascending date order and the sunrise and sunset of the first. *)
C7_SevenAscending ==
    (pc = "normalized" /\ weather # None /\ MultiDay(raw.forecast.forecastday)) =>
        /\ Len(weather.forecast) = ForecastHorizon
        /\ Ascending(weather.forecast)
        /\ weather.sunrise = weather.forecast[1].sunrise
        /\ weather.sunset = weather.forecast[1].sunset

(* C7, amended: the record has one forecast entry per forecast day of the
   response, in the response's order with the dates parsed, hence exactly 7
   in ascending date order when the response carries the 7 days in ascending
   order; its sunrise and sunset are those of the first forecast entry. *)
C7_ForecastAsGiven ==
    (pc = "normalized" /\ weather # None) =>
        LET days == raw.forecast.forecastday IN
        /\ Len(weather.forecast) = Len(days)
        /\ Len(weather.forecast) >= 1
        /\ \A k \in DOMAIN days :
              /\ weather.forecast[k].date = strptime(days[k].date)
              /\ weather.forecast[k].sunrise = days[k].astro.sunrise
              /\ weather.forecast[k].sunset = days[k].astro.sunset
        /\ \A j, k \in DOMAIN days :
              DateStrLess(days[j].date, days[k].date)
                  <=> weather.forecast[j].date < weather.forecast[k].date
        /\ ((Len(days) = ForecastHorizon /\ MultiDay(days))
              => (Len(weather.forecast) = ForecastHorizon /\ Ascending(weather.forecast)))
        /\ weather.sunrise = weather.forecast[1].sunrise
        /\ weather.sunset = weather.forecast[1].sunset

C7_Witness ==
    /\ pc = "normalized"
    /\ weather # None
    /\ Len(weather.forecast) = ForecastHorizon
    /\ Ascending(weather.forecast)
    /\ raw.forecast.forecastday[1].date = Today
    /\ raw.forecast.forecastday[ForecastHorizon].date = <<2027, 1, 3>>
    /\ weather.sunrise = raw.forecast.forecastday[1].astro.sunrise
    /\ weather.sunrise # weather.forecast[ForecastHorizon].sunrise

(* C8: a pass over a single city that is not found ends with both tables
   empty, one not-found message, no chart and no CSV download; the CSV
   download is offered only when some city was found. *)
C8_NothingForNotFound ==
    /\ (pc = "done" /\ fetched = <<None>>) =>
          /\ comparison_df = EmptyFrame
          /\ download_df = <<>>
          /\ messages = <<NotFoundMessage(cities[1])>>
          /\ ~chart_drawn
          /\ ~csv_offered
    /\ csv_offered => Successes # <<>>

C8_Witness ==
    /\ pc = "done"
    /\ cities = <<(<<"K">>)>>
    /\ "error" \in DOMAIN raw
    /\ fetched = <<None>>
    /\ Len(messages) = 1
    /\ ~csv_offered

(* C9: the rows of download_df are the forecast entries of the found cities,
   city after city in list order and, within a city, in the order of its
   forecast, each with the city's name; nothing is reordered, dropped or
   deduplicated. *)
C9_ExportOrder ==
    LET ws == Successes IN
    /\ Len(download_df) = SumSeq(ForecastLengths(ws))
    /\ \A k \in DOMAIN ws : \A j \in DOMAIN ws[k].forecast :
          LET row == download_df[Offset(ws, k) + j] IN
          /\ row.city = ws[k].city
          /\ [f \in DOMAIN ws[k].forecast[j] |-> row[f]] = ws[k].forecast[j]
          /\ DOMAIN row = DOMAIN ws[k].forecast[j] \cup {"city"}

C9_Witness ==
    /\ pc = "done"
    /\ Len(cities) = 3
    /\ cities[1] = cities[3]
    /\ Len(Successes) = 3
    /\ Successes[1] = Successes[3]
    /\ Successes[1].city # Successes[2].city
    /\ Len(download_df) = 3 * ForecastHorizon
    /\ SubSeq(download_df, 1, ForecastHorizon)
          = SubSeq(download_df, 2 * ForecastHorizon + 1, 3 * ForecastHorizon)

(* C10: the list has one trimmed entry per comma-separated piece of the
   input; the requests issued are the entries of the list in order, one each,
   the next one only after the previous entry is handled, and a pass that
   runs to completion has issued one request per entry. *)
C10_OneRequestPerEntry ==
    /\ Len(requests) = Len(fetched) + (IF pc \in {"body", "aborted"} THEN 1 ELSE 0)
    /\ Len(requests) <= Len(cities)
    /\ \A k \in DOMAIN requests : requests[k] = cities[k]
    /\ Len(cities) = NumCommas(cities_input) + 1
    /\ \A k \in DOMAIN cities : Trimmed(cities[k]) /\ "," \notin Range(cities[k])
    /\ (pc = "done" => Len(requests) = Len(cities))

C10_Witness ==
    /\ pc = "done"
    /\ cities_input = <<"K", ",", " ", "K", ",">>
    /\ cities = <<(<<"K">>), (<<"K">>), <<>>>>
    /\ requests = cities

====
